---- MODULE Spec2Model ----
(***************************************************************************)
(* A model of the data-analyst assistant: the sheet loader, the column     *)
(* classifier, the preprocessor and the relationship builder of            *)
(* DataAnalyzer (src/data_analyzer.py), its ordered trigger router `query`,*)
(* the result formatter and the fallback asker of LLMHandler               *)
(* (src/llm_handler.py), and the session state of the page                 *)
(* (src/main.py).                                                          *)
(*                                                                         *)
(* Text is modelled as TLA+ strings, character by character: lower-casing, *)
(* substring containment, space removal, whitespace stripping and the two  *)
(* regular expressions of the router are computed on the characters.       *)
(* An exception raised by the code is modelled as an outcome record with   *)
(* kind "raise" that names the exception class.                            *)
(***************************************************************************)
EXTENDS Integers, Sequences, FiniteSets, TLC

VARIABLES
    analyzer,      \* st.session_state.analyzer: NoHandler or the LLMHandler's DataAnalyzer state
    history,       \* LLMHandler.conversation_history
    conversation,  \* st.session_state.conversation
    processing,    \* st.session_state.processing
    file_path,     \* st.session_state.file_path
    last,          \* what the get_answer call of the latest step did (observation)
    asked,         \* get_answer calls since the last clear_history / load (observation)
    seen,          \* the first question asked since the load, and query's outcome (observation)
    question,      \* the router specification's input text
    nphrases       \* the number of phrases the input text was built from

vars == <<analyzer, history, conversation, processing, file_path, last, asked,
          seen, question, nphrases>>

-----------------------------------------------------------------------------
(* Bounds of the model.                                                    *)

MaxAsks == 2
MaxPhrases == 2
MaxCalls == 4

-----------------------------------------------------------------------------
(* Text: the str methods and the regular expressions the code uses.        *)

UpperAlpha == "ABCDEFGHIJKLMNOPQRSTUVWXYZ"
LowerAlpha == "abcdefghijklmnopqrstuvwxyz"
DigitChars == "0123456789"

CharAt(s, i) == SubSeq(s, i, i)

\* alphabet.find(c) + 1 for a character c (the alphabets hold no character twice)
IndexIn(alphabet, c) ==
    LET hits == { i \in 1..Len(alphabet) : CharAt(alphabet, i) = c }
    IN IF hits = {} THEN 0 ELSE CHOOSE i \in hits : TRUE

\* the lower-case letter of each upper-case letter
LowerTable ==
    [c \in { CharAt(UpperAlpha, i) : i \in 1..Len(UpperAlpha) } |->
        CharAt(LowerAlpha, IndexIn(UpperAlpha, c))]

LowerChar(c) == IF c \in DOMAIN LowerTable THEN LowerTable[c] ELSE c

RECURSIVE LowerFrom(_, _)
LowerFrom(s, i) ==
    IF i > Len(s) THEN "" ELSE LowerChar(CharAt(s, i)) \o LowerFrom(s, i + 1)

\* str.lower()
Lower(s) == LowerFrom(s, 1)

\* `t in s` for two str
Contains(s, t) ==
    \E i \in 1..(Len(s) - Len(t) + 1) : SubSeq(s, i, i + Len(t) - 1) = t

\* s.startswith(t)
StartsWith(s, t) == Len(s) >= Len(t) /\ SubSeq(s, 1, Len(t)) = t

\* s.endswith(t)
EndsWith(s, t) == Len(s) >= Len(t) /\ SubSeq(s, Len(s) - Len(t) + 1, Len(s)) = t

RECURSIVE RemoveSpacesFrom(_, _)
RemoveSpacesFrom(s, i) ==
    IF i > Len(s) THEN ""
    ELSE (IF CharAt(s, i) = " " THEN "" ELSE CharAt(s, i)) \o RemoveSpacesFrom(s, i + 1)

\* s.replace(' ', '')
RemoveSpaces(s) == RemoveSpacesFrom(s, 1)

RECURSIVE SkipSpacesUp(_, _)
SkipSpacesUp(s, i) ==
    IF i <= Len(s) /\ CharAt(s, i) = " " THEN SkipSpacesUp(s, i + 1) ELSE i

RECURSIVE SkipSpacesDown(_, _)
SkipSpacesDown(s, j) ==
    IF j >= 1 /\ CharAt(s, j) = " " THEN SkipSpacesDown(s, j - 1) ELSE j

\* s.strip()
Strip(s) == SubSeq(s, SkipSpacesUp(s, 1), SkipSpacesDown(s, Len(s)))

IsDigit(c) == IndexIn(DigitChars, c) # 0
DigitVal(c) == IndexIn(DigitChars, c) - 1

RECURSIVE DigitsEnd(_, _)
\* the index after the run of digits that starts at i (i itself when there is none)
DigitsEnd(s, i) ==
    IF i <= Len(s) /\ IsDigit(CharAt(s, i)) THEN DigitsEnd(s, i + 1) ELSE i

RECURSIVE IntOfFrom(_, _, _)
IntOfFrom(s, i, acc) ==
    IF i > Len(s) THEN acc ELSE IntOfFrom(s, i + 1, acc * 10 + DigitVal(CharAt(s, i)))

\* int(s) for a str of digits
IntOf(s) == IntOfFrom(s, 1, 0)

AllDigits(s) == \A i \in 1..Len(s) : IsDigit(CharAt(s, i))

\* re.search(keyword + r'\s*(\d+)', s): the places where the pattern matches
KeywordDigitsStarts(s, keyword) ==
    { i \in 1..(Len(s) - Len(keyword) + 1) :
        /\ SubSeq(s, i, i + Len(keyword) - 1) = keyword
        /\ LET d == SkipSpacesUp(s, i + Len(keyword)) IN DigitsEnd(s, d) > d }

\* re.search(...) is not None
KeywordDigitsFound(s, keyword) == KeywordDigitsStarts(s, keyword) # {}

\* re.search(...).group(1): the digits of the leftmost match
KeywordDigitsGroup(s, keyword) ==
    LET starts == KeywordDigitsStarts(s, keyword)
        i == CHOOSE a \in starts : \A b \in starts : a <= b
        d == SkipSpacesUp(s, i + Len(keyword))
    IN SubSeq(s, d, DigitsEnd(s, d) - 1)

RECURSIVE JoinFrom(_, _, _)
JoinFrom(sep, items, i) ==
    IF i > Len(items) THEN ""
    ELSE (IF i = 1 THEN "" ELSE sep) \o items[i] \o JoinFrom(sep, items, i + 1)

\* sep.join(items)
Join(sep, items) == JoinFrom(sep, items, 1)

\* zero-padded decimal of n to width w
RECURSIVE Pad(_, _)
Pad(n, w) == IF w <= 1 THEN ToString(n % 10) ELSE Pad(n \div 10, w - 1) \o ToString(n % 10)

RECURSIVE Commas(_)
\* the integer part of format(x, ',')
Commas(n) ==
    IF n < 1000 THEN ToString(n) ELSE Commas(n \div 1000) \o "," \o Pad(n % 1000, 3)

-----------------------------------------------------------------------------
(* Dates: pd.to_datetime on text, and strftime('%Y-%m-%d').                *)

DaysIn(y, m) ==
    IF m \in {4, 6, 9, 11} THEN 30
    ELSE IF m # 2 THEN 31
    ELSE IF (y % 4 = 0 /\ y % 100 # 0) \/ y % 400 = 0 THEN 29 ELSE 28

\* the ISO shapes 'YYYY-MM' and 'YYYY-MM-DD' (the other formats pandas accepts
\* do not occur in the files of the model)
IsoShape(s) ==
    /\ Len(s) \in {7, 10}
    /\ AllDigits(SubSeq(s, 1, 4)) /\ CharAt(s, 5) = "-" /\ AllDigits(SubSeq(s, 6, 7))
    /\ Len(s) = 10 => (CharAt(s, 8) = "-" /\ AllDigits(SubSeq(s, 9, 10)))

\* pd.to_datetime(s) does not raise
CanParseDate(s) ==
    /\ IsoShape(s)
    /\ IntOf(SubSeq(s, 6, 7)) \in 1..12
    /\ Len(s) = 10 =>
         IntOf(SubSeq(s, 9, 10)) \in 1..DaysIn(IntOf(SubSeq(s, 1, 4)), IntOf(SubSeq(s, 6, 7)))

\* pd.to_datetime(s): a missing day is the first of the month
ParseDate(s) ==
    [y |-> IntOf(SubSeq(s, 1, 4)),
     m |-> IntOf(SubSeq(s, 6, 7)),
     d |-> IF Len(s) = 10 THEN IntOf(SubSeq(s, 9, 10)) ELSE 1]

\* Timestamp.strftime('%Y-%m-%d')
FormatDate(t) == Pad(t.y, 4) \o "-" \o Pad(t.m, 2) \o "-" \o Pad(t.d, 2)

\* a < b for two Timestamp
DateLess(a, b) ==
    \/ a.y < b.y
    \/ a.y = b.y /\ a.m < b.m
    \/ a.y = b.y /\ a.m = b.m /\ a.d < b.d

\* the order of str: code points of the characters the model's text uses
CodeOrder == " '0123456789ABCDEFGHIJKLMNOPQRSTUVWXYZabcdefghijklmnopqrstuvwxyz"

RECURSIVE StrLessFrom(_, _, _)
StrLessFrom(a, b, i) ==
    IF i > Len(b) THEN FALSE
    ELSE IF i > Len(a) THEN TRUE
    ELSE IF CharAt(a, i) = CharAt(b, i) THEN StrLessFrom(a, b, i + 1)
    ELSE IndexIn(CodeOrder, CharAt(a, i)) < IndexIn(CodeOrder, CharAt(b, i))

\* a < b for two str
StrLess(a, b) == StrLessFrom(a, b, 1)

-----------------------------------------------------------------------------
(* Sequences as Python lists.                                              *)

RECURSIVE SelectIdx(_, _, _)
\* the indices i of s, in order, for which Keep[i] holds
SelectIdx(n, Keep, i) ==
    IF i > n THEN <<>>
    ELSE (IF Keep[i] THEN <<i>> ELSE <<>>) \o SelectIdx(n, Keep, i + 1)

\* df[mask]: the rows whose mask entry is True, in table order
Filter(rows, Keep(_)) ==
    LET idx == SelectIdx(Len(rows), [i \in 1..Len(rows) |-> Keep(rows[i])], 1)
    IN [k \in 1..Len(idx) |-> rows[idx[k]]]

\* series.tolist()
Column(rows, col) == [i \in 1..Len(rows) |-> rows[i][col]]

RECURSIVE SumFrom(_, _)
SumFrom(xs, i) == IF i > Len(xs) THEN 0 ELSE xs[i] + SumFrom(xs, i + 1)

\* series.sum()
Sum(xs) == SumFrom(xs, 1)

RECURSIVE UniqueFrom(_, _, _)
UniqueFrom(xs, i, acc) ==
    IF i > Len(xs) THEN acc
    ELSE UniqueFrom(xs, i + 1,
                    IF \E k \in 1..Len(acc) : acc[k] = xs[i] THEN acc ELSE Append(acc, xs[i]))

\* series.unique(): the distinct values in order of first appearance
Unique(xs) == UniqueFrom(xs, 1, <<>>)

-----------------------------------------------------------------------------
(* The uploaded files: what pd.read_csv / pd.read_excel return for each.   *)
(* A sheet is its column names in order, the dtype pandas gives each       *)
(* column, and its rows in order.                                          *)

EmployeesRaw ==
    [name |-> "Employees", ok |-> TRUE,
     columns |-> <<"EmployeeID", "Name", "Department", "Salary", "HireDate">>,
     dtype |-> [EmployeeID |-> "int64", Name |-> "object", Department |-> "object",
                Salary |-> "int64", HireDate |-> "object"],
     rows |-> << [EmployeeID |-> 1, Name |-> "Alice", Department |-> "Sales",
                  Salary |-> 50000, HireDate |-> "2024-01-10"],
                 [EmployeeID |-> 2, Name |-> " Bob ", Department |-> "Sales",
                  Salary |-> 60000, HireDate |-> "2023-05-01"],
                 [EmployeeID |-> 3, Name |-> "Carol", Department |-> "HR ",
                  Salary |-> 60000, HireDate |-> "2024-03-15"] >>]

\* an Employees sheet one of whose hire dates is not a date
EmployeesUndated ==
    [EmployeesRaw EXCEPT !.rows[3].HireDate = "unknown"]

\* the Sales sheet of the specification's scenario: sales dated by day
SalesByDay ==
    [name |-> "Sales", ok |-> TRUE,
     columns |-> <<"EmployeeID", "SaleID", "Month", "SalesAmount">>,
     dtype |-> [EmployeeID |-> "int64", SaleID |-> "int64", Month |-> "object",
                SalesAmount |-> "int64"],
     rows |-> << [EmployeeID |-> 1, SaleID |-> 101, Month |-> "2025-02-01", SalesAmount |-> 200],
                 [EmployeeID |-> 1, SaleID |-> 102, Month |-> "2025-02-15", SalesAmount |-> 300],
                 [EmployeeID |-> 2, SaleID |-> 103, Month |-> "2025-01-20", SalesAmount |-> 500] >>]

\* a Sales sheet whose Month column names the month only
SalesByMonth ==
    [SalesByDay EXCEPT !.rows[1].Month = "2025-02", !.rows[2].Month = "2025-02",
                       !.rows[3].Month = "2025-01"]

\* a Sales sheet that cannot be parsed
SalesCorrupt == [SalesByDay EXCEPT !.ok = FALSE]

\* a Sales sheet without the join key
SalesNoKey ==
    [name |-> "Sales", ok |-> TRUE,
     columns |-> <<"SaleID", "Month", "SalesAmount">>,
     dtype |-> [SaleID |-> "int64", Month |-> "object", SalesAmount |-> "int64"],
     rows |-> << [SaleID |-> 101, Month |-> "2025-02-01", SalesAmount |-> 200] >>]

FeedbackRaw ==
    [name |-> "Feedback", ok |-> TRUE,
     columns |-> <<"FeedbackID", "EmployeeID", "FeedbackScore", "Comments", "Valid", "Idea",
                   "Reviewed">>,
     dtype |-> [FeedbackID |-> "int64", EmployeeID |-> "int64", FeedbackScore |-> "int64",
                Comments |-> "object", Valid |-> "bool", Idea |-> "object",
                Reviewed |-> "datetime64"],
     rows |-> << [FeedbackID |-> 201, EmployeeID |-> 1, FeedbackScore |-> 5,
                  Comments |-> "Excellent", Valid |-> TRUE, Idea |-> "2025-03",
                  Reviewed |-> [y |-> 2025, m |-> 3, d |-> 1]],
                 [FeedbackID |-> 202, EmployeeID |-> 2, FeedbackScore |-> 3,
                  Comments |-> "needs improvement on reports", Valid |-> TRUE,
                  Idea |-> "2025-04", Reviewed |-> [y |-> 2025, m |-> 3, d |-> 2]],
                 [FeedbackID |-> 203, EmployeeID |-> 1, FeedbackScore |-> 4,
                  Comments |-> "Good", Valid |-> FALSE, Idea |-> "2025-05",
                  Reviewed |-> [y |-> 2025, m |-> 3, d |-> 3]] >>]

\* format: what the file holds; sheets: its sheets in workbook order (one for a CSV)
Files ==
    { [name |-> "company.xlsx", format |-> "workbook",
       sheets |-> <<EmployeesRaw, SalesByDay, FeedbackRaw>>],
      [name |-> "monthly.xlsx", format |-> "workbook",
       sheets |-> <<EmployeesRaw, SalesByMonth>>],
      [name |-> "hr.xls", format |-> "workbook",
       sheets |-> <<FeedbackRaw, EmployeesUndated>>],
      [name |-> "staff.csv", format |-> "csv", sheets |-> <<EmployeesRaw>>],
      [name |-> "STAFF.CSV", format |-> "csv", sheets |-> <<EmployeesRaw>>],
      [name |-> "broken.xlsx", format |-> "workbook",
       sheets |-> <<EmployeesRaw, SalesCorrupt, FeedbackRaw>>],
      [name |-> "nokey.xlsx", format |-> "workbook",
       sheets |-> <<EmployeesRaw, SalesNoKey>>] }

-----------------------------------------------------------------------------
(* DataAnalyzer: construction.                                             *)

Raise(exc) == [kind |-> "raise", exc |-> exc]
Raised(r) == r.kind = "raise"

\* pd.api.types.is_numeric_dtype
IsNumericDtype(dt) == dt \in {"int64", "float64", "bool"}
\* pd.api.types.is_datetime64_any_dtype
IsDatetimeDtype(dt) == dt = "datetime64"
\* pd.api.types.is_string_dtype
IsStringDtype(dt) == dt = "object"

\* pd.to_datetime(data[col]) does not raise
ColumnParses(data, col) == \A i \in 1..Len(data.rows) : CanParseDate(data.rows[i][col])

\* data[col] = pd.to_datetime(data[col])
CoerceDates(data, col) ==
    [data EXCEPT !.dtype[col] = "datetime64",
                 !.rows = [i \in 1..Len(data.rows) |->
                             [data.rows[i] EXCEPT ![col] = ParseDate(@)]]]

\* the id heuristic on the lower-cased column name
IsIdName(col) == Contains(Lower(col), "id") /\ ~Contains(Lower(col), "idea")

\* the loop body with the id test made the first branch of the chain: an id column
\* gets the id tag and no type
AnalyzeColumnIdFirst(acc, col) ==
    LET dt == acc.data.dtype[col] IN
    IF IsIdName(col) THEN [acc EXCEPT !.column_types.id = Append(@, col)]
    ELSE IF IsNumericDtype(dt)
    THEN [acc EXCEPT !.column_types.numeric = Append(@, col)]
    ELSE IF IsDatetimeDtype(dt)
    THEN [acc EXCEPT !.column_types.date = Append(@, col)]
    ELSE IF ColumnParses(acc.data, col)
    THEN [data |-> CoerceDates(acc.data, col),
          column_types |-> [acc.column_types EXCEPT !.date = Append(@, col)]]
    ELSE [acc EXCEPT !.column_types.categorical = Append(@, col)]

\* one pass of the loop over data.columns; acc = [data, column_types]
AnalyzeColumn(acc, col) ==
    LET dt == acc.data.dtype[col]
        typed ==
            IF IsNumericDtype(dt)
            THEN [acc EXCEPT !.column_types.numeric = Append(@, col)]
            ELSE IF IsDatetimeDtype(dt)
            THEN [acc EXCEPT !.column_types.date = Append(@, col)]
            ELSE IF ColumnParses(acc.data, col)
            THEN [data |-> CoerceDates(acc.data, col),
                  column_types |-> [acc.column_types EXCEPT !.date = Append(@, col)]]
            ELSE [acc EXCEPT !.column_types.categorical = Append(@, col)]
    IN IF IsIdName(col) THEN [typed EXCEPT !.column_types.id = Append(@, col)] ELSE typed

RECURSIVE AnalyzeColumnsFrom(_, _, _)
AnalyzeColumnsFrom(columns, i, acc) ==
    IF i > Len(columns) THEN acc
    ELSE AnalyzeColumnsFrom(columns, i + 1, AnalyzeColumn(acc, columns[i]))

\* DataAnalyzer._analyze_sheet
AnalyzeSheet(sheet_name, raw) ==
    LET start == [data |-> [columns |-> raw.columns, dtype |-> raw.dtype, rows |-> raw.rows],
                  column_types |-> [numeric |-> <<>>, categorical |-> <<>>,
                                    date |-> <<>>, id |-> <<>>]]
        done == AnalyzeColumnsFrom(raw.columns, 1, start)
    IN [name |-> sheet_name, data |-> done.data, column_types |-> done.column_types]

RECURSIVE LoadWorkbookFromSkipping(_, _, _)
\* the loop with a sheet that cannot be read skipped
LoadWorkbookFromSkipping(raws, i, sheets) ==
    IF i > Len(raws) THEN [kind |-> "ok", sheets |-> sheets]
    ELSE IF ~raws[i].ok THEN LoadWorkbookFromSkipping(raws, i + 1, sheets)
    ELSE LoadWorkbookFromSkipping(raws, i + 1,
                                  (raws[i].name :> AnalyzeSheet(raws[i].name, raws[i]))
                                  @@ sheets)

RECURSIVE LoadWorkbookFrom(_, _, _)
\* the loop over xls.sheet_names: a sheet that cannot be read raises out of it
LoadWorkbookFrom(raws, i, sheets) ==
    IF i > Len(raws) THEN [kind |-> "ok", sheets |-> sheets]
    ELSE IF ~raws[i].ok THEN Raise("ParserError")
    ELSE LoadWorkbookFrom(raws, i + 1,
                          (raws[i].name :> AnalyzeSheet(raws[i].name, raws[i])) @@ sheets)

\* DataAnalyzer._load_all_sheets
LoadAllSheets(path, file) ==
    IF EndsWith(path, ".csv")
    THEN IF file.format # "csv" \/ ~file.sheets[1].ok THEN Raise("ParserError")
         ELSE [kind |-> "ok", sheets |-> ("data" :> AnalyzeSheet("data", file.sheets[1]))]
    ELSE IF file.format # "workbook" THEN Raise("ValueError")
         ELSE LoadWorkbookFrom(file.sheets, 1, <<>>)

\* the body of the loop over sheet.data.columns in _preprocess_data
PreprocessColumn(data, col) ==
    IF IsNumericDtype(data.dtype[col]) THEN data
    ELSE IF IsStringDtype(data.dtype[col])
    THEN [data EXCEPT !.rows = [i \in 1..Len(data.rows) |->
                                  [data.rows[i] EXCEPT ![col] = Strip(@)]]]
    ELSE data

RECURSIVE PreprocessColumnsFrom(_, _, _)
PreprocessColumnsFrom(columns, i, data) ==
    IF i > Len(columns) THEN data
    ELSE PreprocessColumnsFrom(columns, i + 1, PreprocessColumn(data, columns[i]))

\* DataAnalyzer._preprocess_data
PreprocessData(sheets) ==
    [n \in DOMAIN sheets |->
        [sheets[n] EXCEPT !.data = PreprocessColumnsFrom(@.columns, 1, @)]]

HasColumn(data, col) == \E i \in 1..Len(data.columns) : data.columns[i] = col

RECURSIVE MergeFrom(_, _, _)
\* pd.merge(left, right, on='EmployeeID', how='left'): every left row, once per right
\* row with its key; a left row without one keeps no right-hand value (NaN)
MergeFrom(left, right, i) ==
    IF i > Len(left) THEN <<>>
    ELSE LET l == left[i]
             matches == Filter(right, LAMBDA r : r.EmployeeID = l.EmployeeID)
         IN (IF Len(matches) = 0 THEN <<l>>
             ELSE [k \in 1..Len(matches) |-> l @@ matches[k]])
            \o MergeFrom(left, right, i + 1)

Merge(left, right) ==
    IF ~HasColumn(left, "EmployeeID") \/ ~HasColumn(right, "EmployeeID")
    THEN Raise("KeyError")
    ELSE [kind |-> "ok", rows |-> MergeFrom(left.rows, right.rows, 1)]

\* the two tests chained with elif: the feedback view is built only when the sales
\* view is not
CreateRelationshipsElif(sheets) ==
    IF {"Employees", "Sales"} \subseteq DOMAIN sheets
    THEN IF Raised(Merge(sheets["Employees"].data, sheets["Sales"].data))
         THEN Raise("KeyError")
         ELSE [kind |-> "ok",
               views |-> ("employee_sales"
                            :> Merge(sheets["Employees"].data, sheets["Sales"].data).rows)]
    ELSE IF {"Employees", "Feedback"} \subseteq DOMAIN sheets
    THEN IF Raised(Merge(sheets["Employees"].data, sheets["Feedback"].data))
         THEN Raise("KeyError")
         ELSE [kind |-> "ok",
               views |-> ("employee_feedback"
                            :> Merge(sheets["Employees"].data, sheets["Feedback"].data).rows)]
    ELSE [kind |-> "ok", views |-> <<>>]

\* DataAnalyzer._create_relationships: the attributes it sets
CreateRelationships(sheets) ==
    LET names == DOMAIN sheets
        es == IF {"Employees", "Sales"} \subseteq names
              THEN Merge(sheets["Employees"].data, sheets["Sales"].data)
              ELSE [kind |-> "absent"]
        ef == IF {"Employees", "Feedback"} \subseteq names
              THEN Merge(sheets["Employees"].data, sheets["Feedback"].data)
              ELSE [kind |-> "absent"]
    IN IF Raised(es) THEN es
       ELSE IF Raised(ef) THEN ef
       ELSE [kind |-> "ok",
             views |-> (IF es.kind = "ok" THEN ("employee_sales" :> es.rows) ELSE <<>>)
                       @@ (IF ef.kind = "ok" THEN ("employee_feedback" :> ef.rows) ELSE <<>>)]

\* DataAnalyzer.__init__
NewDataAnalyzer(path, file) ==
    LET loaded == LoadAllSheets(path, file) IN
    IF Raised(loaded) THEN loaded
    ELSE LET sheets == PreprocessData(loaded.sheets)
             rel == CreateRelationships(sheets)
         IN IF Raised(rel) THEN rel
            ELSE [kind |-> "ok", file |-> file.name, sheets |-> sheets, views |-> rel.views]

-----------------------------------------------------------------------------
(* DataAnalyzer.query: entity extraction and the handlers.                 *)
(* a is the analyzer (its sheets and views), q the question as given.      *)

Return(result) == [kind |-> "return", result |-> result]

\* the last statement of query
Unhandled(q) == Return([type |-> "unhandled", question |-> q])

\* self.sheets[sheet].data[col] raises KeyError
NoColumn(a, sheet, col) ==
    sheet \notin DOMAIN a.sheets \/ ~HasColumn(a.sheets[sheet].data, col)

Rows(a, sheet) == a.sheets[sheet].data.rows
Dtype(a, sheet, col) == a.sheets[sheet].data.dtype[col]

RECURSIVE FirstIn(_, _, _)
\* the loop of _extract_department / _extract_name over the distinct values
FirstIn(values, question_lower, i) ==
    IF i > Len(values) THEN [found |-> FALSE, value |-> ""]
    ELSE IF Contains(question_lower, Lower(values[i]))
    THEN [found |-> TRUE, value |-> values[i]]
    ELSE FirstIn(values, question_lower, i + 1)

\* _extract_department and _extract_name: the first distinct value of the Employees
\* column whose lower-cased form occurs in the lower-cased question
ExtractFrom(a, col, q) ==
    IF NoColumn(a, "Employees", col) THEN Raise("KeyError")
    ELSE IF Len(Rows(a, "Employees")) > 0 /\ Dtype(a, "Employees", col) # "object"
    THEN Raise("AttributeError")
    ELSE LET hit == FirstIn(Unique(Column(Rows(a, "Employees"), col)), Lower(q), 1)
         IN [kind |-> "return", found |-> hit.found, value |-> hit.value]

\* DataAnalyzer._extract_department
ExtractDepartment(a, q) == ExtractFrom(a, "Department", q)

\* DataAnalyzer._extract_name
ExtractName(a, q) == ExtractFrom(a, "Name", q)

\* `if dept:` / `if name:` on what the extraction returned
Truthy(x) == x.found /\ x.value # ""

EmployeesNamed(a, name) == Filter(Rows(a, "Employees"), LAMBDA r : r.Name = name)

\* series == text, by the dtype of the series
EqualsText(dt, v, text) ==
    IF dt = "datetime64" THEN v = ParseDate(text)
    ELSE IF dt = "object" THEN v = text
    ELSE FALSE

RECURSIVE MaxOf(_, _, _)
MaxOf(xs, i, best) ==
    IF i > Len(xs) THEN best ELSE MaxOf(xs, i + 1, IF xs[i] > best THEN xs[i] ELSE best)

\* a mean, kept exact: the sum and the number of values
Mean(xs) == [sum |-> Sum(xs), count |-> Len(xs)]

\* mean p < mean r (both over at least one value)
MeanLess(p, r) == p.sum * r.count < r.sum * p.count

DepartmentCount(a, q) ==
    LET dept == ExtractDepartment(a, q) IN
    IF Raised(dept) THEN dept
    ELSE IF ~Truthy(dept) THEN Unhandled(q)
    ELSE IF NoColumn(a, "Employees", "Name") THEN Raise("KeyError")
    ELSE LET rows == Filter(Rows(a, "Employees"), LAMBDA r : r.Department = dept.value)
         IN Return([type |-> "department_count", department |-> dept.value,
                    count |-> Len(rows), names |-> Column(rows, "Name")])

EmployeeSalary(a, q) ==
    LET name == ExtractName(a, q) IN
    IF Raised(name) THEN name
    ELSE IF ~Truthy(name) THEN Unhandled(q)
    ELSE IF NoColumn(a, "Employees", "Salary") THEN Raise("KeyError")
    ELSE Return([type |-> "employee_salary", name |-> name.value,
                 salary |-> EmployeesNamed(a, name.value)[1].Salary])

HighestSalary(a, q) ==
    IF NoColumn(a, "Employees", "Salary") THEN Raise("KeyError")
    ELSE LET rows == Rows(a, "Employees") IN
         IF Len(rows) = 0 THEN Raise("IndexError")
         ELSE LET max_salary == MaxOf(Column(rows, "Salary"), 2, rows[1].Salary)
                  employee == Filter(rows, LAMBDA r : r.Salary = max_salary)[1]
              IN Return([type |-> "highest_salary", name |-> employee.Name,
                         salary |-> employee.Salary, department |-> employee.Department])

\* the Sales rows whose Month equals the text
SalesOfMonth(a, text) ==
    Filter(Rows(a, "Sales"), LAMBDA r : EqualsText(Dtype(a, "Sales", "Month"), r.Month, text))

SalesCount(a, q) ==
    IF NoColumn(a, "Sales", "Month") THEN Raise("KeyError")
    ELSE LET feb_sales == SalesOfMonth(a, "2025-02") IN
         IF NoColumn(a, "Sales", "SaleID") THEN Raise("KeyError")
         ELSE Return([type |-> "sales_count", month |-> "February 2025",
                      count |-> Len(feb_sales), sale_ids |-> Column(feb_sales, "SaleID")])

\* v < w for two values of a HireDate column of the given dtype
HireLess(dt, v, w) == IF dt = "datetime64" THEN DateLess(v, w) ELSE StrLess(v, w)

\* sort_values('HireDate', ascending=False).iloc[0]: a row of the latest HireDate
\* (the first of them in table order)
RecentHire(a, q) ==
    IF NoColumn(a, "Employees", "HireDate") THEN Raise("KeyError")
    ELSE LET rows == Rows(a, "Employees")
             dt == Dtype(a, "Employees", "HireDate")
         IN IF Len(rows) = 0 THEN Raise("IndexError")
            ELSE LET recent == Filter(rows, LAMBDA r :
                                   \A k \in 1..Len(rows) :
                                       ~HireLess(dt, r.HireDate, rows[k].HireDate))[1]
                 IN Return([type |-> "recent_hire", name |-> recent.Name,
                            hire_date |-> recent.HireDate, hire_dtype |-> dt,
                            department |-> recent.Department])

FeedbackScore(a, q) ==
    LET name == ExtractName(a, q) IN
    IF Raised(name) THEN name
    ELSE IF ~Truthy(name) THEN Unhandled(q)
    ELSE IF NoColumn(a, "Employees", "EmployeeID") THEN Raise("KeyError")
    ELSE IF NoColumn(a, "Feedback", "EmployeeID") THEN Raise("KeyError")
    ELSE LET employee_id == EmployeesNamed(a, name.value)[1].EmployeeID
             feedback == Filter(Rows(a, "Feedback"), LAMBDA r : r.EmployeeID = employee_id)
         IN IF Len(feedback) = 0 THEN Unhandled(q)
            ELSE IF NoColumn(a, "Feedback", "FeedbackScore")
                    \/ NoColumn(a, "Feedback", "Comments")
            THEN Raise("KeyError")
            ELSE Return([type |-> "feedback_score", name |-> name.value,
                         score |-> feedback[1].FeedbackScore,
                         comment |-> feedback[1].Comments])

EmployeeDepartment(a, q) ==
    LET name == ExtractName(a, q) IN
    IF Raised(name) THEN name
    ELSE IF ~Truthy(name) THEN Unhandled(q)
    ELSE IF NoColumn(a, "Employees", "Department") THEN Raise("KeyError")
    ELSE Return([type |-> "employee_department", name |-> name.value,
                 department |-> EmployeesNamed(a, name.value)[1].Department])

SaleAmount(a, q) ==
    IF ~Contains(RemoveSpaces(Lower(q)), "saleid") THEN Unhandled(q)
    ELSE IF ~KeywordDigitsFound(Lower(q), "saleid") THEN Raise("AttributeError")
    ELSE LET sale_id == IntOf(KeywordDigitsGroup(Lower(q), "saleid")) IN
         IF NoColumn(a, "Sales", "SaleID") \/ NoColumn(a, "Sales", "SalesAmount")
         THEN Raise("KeyError")
         ELSE LET sales == Filter(Rows(a, "Sales"), LAMBDA r : r.SaleID = sale_id) IN
              IF Len(sales) = 0 THEN Raise("IndexError")
              ELSE Return([type |-> "sale_amount", sale_id |-> sale_id,
                           amount |-> sales[1].SalesAmount])

NeedsImprovement(a, q) ==
    IF NoColumn(a, "Feedback", "Comments") THEN Raise("KeyError")
    ELSE LET feedback == Filter(Rows(a, "Feedback"),
                                LAMBDA r : Contains(Lower(r.Comments), "needs improvement"))
         IN IF Len(feedback) = 0 THEN Unhandled(q)
            ELSE IF NoColumn(a, "Feedback", "EmployeeID")
                    \/ NoColumn(a, "Employees", "EmployeeID")
            THEN Raise("KeyError")
            ELSE LET employee_id == feedback[1].EmployeeID
                     employees == Filter(Rows(a, "Employees"),
                                         LAMBDA r : r.EmployeeID = employee_id)
                 IN IF Len(employees) = 0 THEN Raise("IndexError")
                    ELSE IF NoColumn(a, "Feedback", "FeedbackID") THEN Raise("KeyError")
                    ELSE Return([type |-> "needs_improvement", name |-> employees[1].Name,
                                 feedback_id |-> feedback[1].FeedbackID])

TotalSales(a, q) ==
    IF NoColumn(a, "Sales", "Month") \/ NoColumn(a, "Sales", "SalesAmount")
    THEN Raise("KeyError")
    ELSE Return([type |-> "total_sales", month |-> "January 2025",
                 total |-> Sum(Column(SalesOfMonth(a, "2025-01"), "SalesAmount"))])


\* groupby(...)[...].agg().idxmax() / idxmin(): the groups come sorted by key, and the
\* first of the best is taken. Better(j, k): group j's value beats group k's.
FirstBest(keys, Better(_, _), KeyLess(_, _)) ==
    CHOOSE k \in keys :
        /\ \A j \in keys : ~Better(j, k)
        /\ \A j \in keys : (j # k /\ ~Better(k, j)) => KeyLess(k, j)

Values(xs) == { xs[i] : i \in 1..Len(xs) }

\* the non-NaN values of a column of a merged view
Present(rows, col) == Column(Filter(rows, LAMBDA r : col \in DOMAIN r), col)

TopSalesEmployee(a, q) ==
    IF "employee_sales" \notin DOMAIN a.views THEN Unhandled(q)
    ELSE IF NoColumn(a, "Employees", "Name") \/ NoColumn(a, "Sales", "SalesAmount")
    THEN Raise("KeyError")
    ELSE LET view == a.views["employee_sales"]
             total(name) == Sum(Present(Filter(view, LAMBDA r : r.Name = name), "SalesAmount"))
             names == Values(Column(view, "Name"))
         IN IF names = {} THEN Raise("ValueError")
            ELSE LET top_employee == FirstBest(names, LAMBDA j, k : total(j) > total(k), StrLess)
                 IN Return([type |-> "top_sales_employee", name |-> top_employee,
                            total_sales |-> total(top_employee)])

AvgSalary(a, q) ==
    LET dept == ExtractDepartment(a, q) IN
    IF Raised(dept) THEN dept
    ELSE IF ~Truthy(dept) THEN Unhandled(q)
    ELSE IF NoColumn(a, "Employees", "Salary") THEN Raise("KeyError")
    ELSE LET rows == Filter(Rows(a, "Employees"), LAMBDA r : r.Department = dept.value)
         IN Return([type |-> "avg_salary", department |-> dept.value,
                    average |-> Mean(Column(rows, "Salary"))])

FeedbackCount(a, q) ==
    IF ~Contains(q, "5") THEN Unhandled(q)
    ELSE IF NoColumn(a, "Feedback", "FeedbackScore") THEN Raise("KeyError")
    ELSE Return([type |-> "feedback_count", score |-> 5,
                 count |-> Len(Filter(Rows(a, "Feedback"), LAMBDA r : r.FeedbackScore = 5))])

TotalPayroll(a, q) ==
    IF NoColumn(a, "Employees", "Salary") THEN Raise("KeyError")
    ELSE Return([type |-> "total_payroll",
                 total |-> Sum(Column(Rows(a, "Employees"), "Salary"))])

TopSalesMonth(a, q) ==
    IF NoColumn(a, "Sales", "Month") \/ NoColumn(a, "Sales", "SalesAmount")
    THEN Raise("KeyError")
    ELSE LET rows == Rows(a, "Sales")
             dt == Dtype(a, "Sales", "Month")
             total(month) == Sum(Column(Filter(rows, LAMBDA r : r.Month = month), "SalesAmount"))
             months == Values(Column(rows, "Month"))
         IN IF months = {} THEN Raise("ValueError")
            ELSE LET top_month == FirstBest(months, LAMBDA j, k : total(j) > total(k),
                                            LAMBDA j, k : HireLess(dt, j, k))
                 IN Return([type |-> "top_sales_month", month |-> top_month,
                            month_dtype |-> dt, total |-> total(top_month)])

AvgFeedback(a, q) ==
    IF NoColumn(a, "Feedback", "FeedbackScore") THEN Raise("KeyError")
    ELSE Return([type |-> "avg_feedback",
                 average |-> Mean(Column(Rows(a, "Feedback"), "FeedbackScore"))])

LowestAvgSalary(a, q) ==
    IF NoColumn(a, "Employees", "Department") \/ NoColumn(a, "Employees", "Salary")
    THEN Raise("KeyError")
    ELSE LET rows == Rows(a, "Employees")
             avg(dept) == Mean(Column(Filter(rows, LAMBDA r : r.Department = dept), "Salary"))
             depts == Values(Column(rows, "Department"))
         IN IF depts = {} THEN Raise("ValueError")
            ELSE LET lowest_dept == FirstBest(depts, LAMBDA j, k : MeanLess(avg(j), avg(k)),
                                              StrLess)
                 IN Return([type |-> "lowest_avg_salary", department |-> lowest_dept,
                            average |-> avg(lowest_dept)])

\* pd.to_datetime(series).dt.year of one value, by the dtype of the series
YearOf(dt, v) == IF dt = "datetime64" THEN v.y ELSE ParseDate(v).y

EmployeesBeforeYear(a, q) ==
    IF ~KeywordDigitsFound(Lower(q), "before") THEN Raise("AttributeError")
    ELSE LET year == IntOf(KeywordDigitsGroup(Lower(q), "before")) IN
         IF NoColumn(a, "Employees", "HireDate") THEN Raise("KeyError")
         ELSE LET rows == Rows(a, "Employees")
                  dt == Dtype(a, "Employees", "HireDate")
              IN IF dt = "object" /\ \E i \in 1..Len(rows) : ~CanParseDate(rows[i].HireDate)
                 THEN Raise("ValueError")
                 ELSE LET employees == Filter(rows, LAMBDA r : YearOf(dt, r.HireDate) < year)
                      IN IF NoColumn(a, "Employees", "Name") THEN Raise("KeyError")
                         ELSE Return([type |-> "employees_before_year", year |-> year,
                                      count |-> Len(employees),
                                      names |-> Column(employees, "Name")])

MostFeedback(a, q) ==
    IF NoColumn(a, "Feedback", "EmployeeID") THEN Raise("KeyError")
    ELSE LET rows == Rows(a, "Feedback")
             size(id) == Len(Filter(rows, LAMBDA r : r.EmployeeID = id))
             ids == Values(Column(rows, "EmployeeID"))
         IN IF ids = {} THEN Raise("ValueError")
            ELSE IF NoColumn(a, "Employees", "EmployeeID") THEN Raise("KeyError")
            ELSE LET top_employee_id == FirstBest(ids, LAMBDA j, k : size(j) > size(k),
                                                  LAMBDA j, k : j < k)
                     employees == Filter(Rows(a, "Employees"),
                                         LAMBDA r : r.EmployeeID = top_employee_id)
                 IN IF Len(employees) = 0 THEN Raise("IndexError")
                    ELSE Return([type |-> "most_feedback", name |-> employees[1].Name,
                                 count |-> size(top_employee_id)])

-----------------------------------------------------------------------------
(* DataAnalyzer.query: the ordered triggers.                               *)

\* the if / elif chain of query, in source order
TriggerTypes ==
    << "department_count", "employee_salary", "highest_salary", "sales_count",
       "recent_hire", "feedback_score", "employee_department", "sale_amount",
       "needs_improvement", "total_sales", "top_sales_employee", "avg_salary",
       "feedback_count", "total_payroll", "top_sales_month", "avg_feedback",
       "lowest_avg_salary", "employees_before_year", "most_feedback" >>

\* the condition of the i-th branch on question_lower
TriggerHolds(i, ql) ==
    CASE i = 1 -> Contains(ql, "how many employees") /\ Contains(ql, "department")
      [] i = 2 -> Contains(ql, "salary of")
      [] i = 3 -> Contains(ql, "highest salary")
      [] i = 4 -> Contains(ql, "how many sales") /\ Contains(ql, "february")
      [] i = 5 -> Contains(ql, "hired most recently")
      [] i = 6 -> Contains(RemoveSpaces(ql), "feedbackscore")
      [] i = 7 -> Contains(ql, "which department")
      [] i = 8 -> Contains(RemoveSpaces(ql), "salesamount")
      [] i = 9 -> Contains(ql, "needs improvement")
      [] i = 10 -> Contains(ql, "total sales amount") /\ Contains(ql, "january")
      [] i = 11 -> Contains(ql, "highest total sales")
      [] i = 12 -> Contains(ql, "average salary") /\ Contains(ql, "department")
      [] i = 13 -> Contains(ql, "how many employees")
                   /\ Contains(RemoveSpaces(ql), "feedbackscore")
      [] i = 14 -> Contains(ql, "total payroll")
      [] i = 15 -> Contains(ql, "highest total sales") /\ Contains(ql, "month")
      [] i = 16 -> Contains(RemoveSpaces(ql), "average feedbackscore")
      [] i = 17 -> Contains(ql, "lowest average salary")
      [] i = 18 -> Contains(ql, "hired before")
      [] i = 19 -> Contains(ql, "most feedback entries")

\* the triggers whose condition the question satisfies
Matching(q) ==
    LET question_lower == Lower(q)
    IN { i \in 1..Len(TriggerTypes) : TriggerHolds(i, question_lower) }

\* the chain written as independent ifs, each overwriting the result: the last branch
\* whose condition holds decides
FirstTriggerOverwritten(q) ==
    LET m == Matching(q) IN IF m = {} THEN 0 ELSE CHOOSE i \in m : \A j \in m : i >= j

\* the branch the if / elif chain enters: the first whose condition holds (0: none)
FirstTrigger(q) ==
    LET m == Matching(q) IN IF m = {} THEN 0 ELSE CHOOSE i \in m : \A j \in m : i <= j

\* the body of the i-th branch
Handle(i, a, q) ==
    CASE i = 1 -> DepartmentCount(a, q)
      [] i = 2 -> EmployeeSalary(a, q)
      [] i = 3 -> HighestSalary(a, q)
      [] i = 4 -> SalesCount(a, q)
      [] i = 5 -> RecentHire(a, q)
      [] i = 6 -> FeedbackScore(a, q)
      [] i = 7 -> EmployeeDepartment(a, q)
      [] i = 8 -> SaleAmount(a, q)
      [] i = 9 -> NeedsImprovement(a, q)
      [] i = 10 -> TotalSales(a, q)
      [] i = 11 -> TopSalesEmployee(a, q)
      [] i = 12 -> AvgSalary(a, q)
      [] i = 13 -> FeedbackCount(a, q)
      [] i = 14 -> TotalPayroll(a, q)
      [] i = 15 -> TopSalesMonth(a, q)
      [] i = 16 -> AvgFeedback(a, q)
      [] i = 17 -> LowestAvgSalary(a, q)
      [] i = 18 -> EmployeesBeforeYear(a, q)
      [] i = 19 -> MostFeedback(a, q)

\* the chain with the two more specific feedback tests moved before the plain one
QuerySpecificFirst(a, q) ==
    IF TriggerHolds(1, Lower(q)) THEN Handle(1, a, q)
    ELSE IF TriggerHolds(13, Lower(q)) THEN Handle(13, a, q)
    ELSE IF Contains(RemoveSpaces(Lower(q)), "averagefeedbackscore") THEN Handle(16, a, q)
    ELSE IF FirstTrigger(q) = 0 THEN Unhandled(q)
    ELSE Handle(FirstTrigger(q), a, q)

RECURSIVE FallThroughFrom(_, _, _)
\* the chain from branch i on, going on to the later branches when one returns
\* 'unhandled'
FallThroughFrom(i, a, q) ==
    IF i > Len(TriggerTypes) THEN Unhandled(q)
    ELSE IF ~TriggerHolds(i, Lower(q)) THEN FallThroughFrom(i + 1, a, q)
    ELSE IF Handle(i, a, q) = Unhandled(q) THEN FallThroughFrom(i + 1, a, q)
    ELSE Handle(i, a, q)

\* query with a branch whose guard fails falling through to the later branches
QueryFallingThrough(a, q) == FallThroughFrom(1, a, q)

\* query reordering the Employees table where it stands
QueryLeavesReordered(a, q) ==
    IF "Employees" \notin DOMAIN a.sheets THEN a
    ELSE [a EXCEPT !.sheets["Employees"].data.rows =
                       [i \in 1..Len(@) |-> @[Len(@) + 1 - i]]]

\* the analyzer (tables, column types, views) as a call of query leaves it: no branch
\* assigns to self or to a table, each works on filtered or sorted copies
QueryLeaves(a, q) == a

RECURSIVE LastDotFrom(_, _)
LastDotFrom(s, i) == IF i < 1 THEN 0 ELSE IF CharAt(s, i) = "." THEN i ELSE LastDotFrom(s, i - 1)

\* os.path.splitext(name)[1]
Extension(name) ==
    LET dot == LastDotFrom(name, Len(name)) IN IF dot <= 1 THEN "" ELSE SubSeq(name, dot, Len(name))

\* save_uploaded_file: the temporary file keeps the extension of the upload
TempPath(name) == "/tmp/tmpupload" \o Extension(name)

\* LLMHandler(file_path) for each file that can be uploaded: the constructor's outcome,
\* computed once
Constructed ==
    [n \in { f.name : f \in Files } |->
        NewDataAnalyzer(TempPath(n), CHOOSE f \in Files : f.name = n)]

\* the questions typed into the chat input
SessionQuestions ==
    { "What is the salary of Alice?",
      "What is the weather today?",
      "Who was hired before the merger?",
      "Who has the highest total sales?" }

\* the if / elif chain of query: the body of the first branch whose condition holds,
\* the unhandled result when none does
QueryBranches(a, q) ==
    LET i == FirstTrigger(q) IN IF i = 0 THEN Unhandled(q) ELSE Handle(i, a, q)

\* query on each loaded file for each question typed into the chat input, computed once
Queried ==
    [n \in { f.name : f \in { g \in Files : ~Raised(Constructed[g.name]) } } |->
        [q \in SessionQuestions |-> QueryBranches(Constructed[n], q)]]

\* DataAnalyzer.query: a function of the analyzer and the question alone, read from
\* Queried where the pair is tabulated there
Query(a, q) ==
    IF q \in SessionQuestions /\ \E n \in DOMAIN Queried : a = Constructed[n]
    THEN Queried[CHOOSE n \in DOMAIN Queried : a = Constructed[n]][q]
    ELSE QueryBranches(a, q)

-----------------------------------------------------------------------------
(* LLMHandler: the result formatter, the fallback asker, get_answer.       *)

\* f"${x:,.2f}" for a whole amount
Money(x) == "$" \o Commas(x) \o ".00"

\* a mean to the nearest hundredth (a tie goes to the even hundredth)
Hundredths(mean) ==
    LET n == mean.sum * 100
        quot == n \div mean.count
        rem == n % mean.count
    IN IF 2 * rem > mean.count THEN quot + 1
       ELSE IF 2 * rem = mean.count THEN quot + (quot % 2)
       ELSE quot

\* f"{x:.2f}" for a mean (nan for the mean of nothing)
Fixed2(mean) ==
    IF mean.count = 0 THEN "nan"
    ELSE ToString(Hundredths(mean) \div 100) \o "." \o Pad(Hundredths(mean) % 100, 2)

\* f"${x:,.2f}" for a mean
MoneyMean(mean) ==
    IF mean.count = 0 THEN "$nan"
    ELSE "$" \o Commas(Hundredths(mean) \div 100) \o "." \o Pad(Hundredths(mean) % 100, 2)

\* map(str, ints)
MapToString(xs) == [i \in 1..Len(xs) |-> ToString(xs[i])]

Text(t) == [kind |-> "text", text |-> t]
None == [kind |-> "none"]

\* a malformed prefix: the space after the colon is missing
AnswerPrefixNoSpace == "Answer:"

\* how every template of _format_analysis_result starts
AnswerPrefix == "Answer: "

\* LLMHandler._format_analysis_result; the dtype fields of a result stand for the
\* Python type of the value beside them
FormatAnalysisResult(result) ==
    LET type == result.type IN
    IF type = "department_count"
    THEN Text(AnswerPrefix \o ToString(result.count) \o " employees in " \o result.department
              \o " department: " \o Join(", ", result.names))
    ELSE IF type = "employee_salary"
    THEN Text(AnswerPrefix \o result.name \o "'s salary is " \o Money(result.salary))
    ELSE IF type = "highest_salary"
    THEN Text(AnswerPrefix \o result.name \o " has the highest salary ("
              \o Money(result.salary) \o ") in " \o result.department \o " department")
    ELSE IF type = "sales_count"
    THEN Text(AnswerPrefix \o ToString(result.count) \o " sales in " \o result.month
              \o " (SaleIDs: " \o Join(", ", MapToString(result.sale_ids)) \o ")")
    ELSE IF type = "recent_hire"
    THEN IF result.hire_dtype # "datetime64" THEN Raise("AttributeError")
         ELSE Text(AnswerPrefix \o result.name \o " was hired most recently on "
                   \o FormatDate(result.hire_date) \o " in " \o result.department
                   \o " department")
    ELSE IF type = "feedback_score"
    THEN Text(AnswerPrefix \o result.name \o "'s FeedbackScore is " \o ToString(result.score)
              \o " (" \o result.comment \o ")")
    ELSE IF type = "employee_department"
    THEN Text(AnswerPrefix \o result.name \o " belongs to " \o result.department
              \o " department")
    ELSE IF type = "sale_amount"
    THEN Text(AnswerPrefix \o "SalesAmount for SaleID " \o ToString(result.sale_id) \o " is "
              \o Money(result.amount))
    ELSE IF type = "needs_improvement"
    THEN Text(AnswerPrefix \o result.name \o " received 'Needs Improvement' feedback (FeedbackID: "
              \o ToString(result.feedback_id) \o ")")
    ELSE IF type = "total_sales"
    THEN Text(AnswerPrefix \o "Total sales for " \o result.month \o " is " \o Money(result.total))
    ELSE IF type = "top_sales_employee"
    THEN Text(AnswerPrefix \o result.name \o " has the highest total sales ("
              \o Money(result.total_sales) \o ")")
    ELSE IF type = "avg_salary"
    THEN Text(AnswerPrefix \o "Average salary in " \o result.department \o " department is "
              \o MoneyMean(result.average))
    ELSE IF type = "feedback_count"
    THEN Text(AnswerPrefix \o ToString(result.count) \o " employees have FeedbackScore of "
              \o ToString(result.score))
    ELSE IF type = "total_payroll"
    THEN Text(AnswerPrefix \o "Total payroll expense is " \o Money(result.total))
    ELSE IF type = "top_sales_month"
    THEN Text(AnswerPrefix
              \o (IF result.month_dtype = "datetime64"
                  THEN FormatDate(result.month) \o " 00:00:00" ELSE result.month)
              \o " had the highest total sales (" \o Money(result.total) \o ")")
    ELSE IF type = "avg_feedback"
    THEN Text(AnswerPrefix \o "Average FeedbackScore across all employees is "
              \o Fixed2(result.average))
    ELSE IF type = "lowest_avg_salary"
    THEN Text(AnswerPrefix \o result.department \o " department has the lowest average salary ("
              \o MoneyMean(result.average) \o ")")
    ELSE IF type = "employees_before_year"
    THEN Text(AnswerPrefix \o ToString(result.count) \o " employees were hired before "
              \o ToString(result.year) \o ": " \o Join(", ", result.names))
    ELSE IF type = "most_feedback"
    THEN Text(AnswerPrefix \o result.name \o " has the most feedback entries ("
              \o ToString(result.count) \o ")")
    ELSE IF "error" \in DOMAIN result
    THEN Text(AnswerPrefix \o result.error)
    ELSE None

\* what the remote chat completion does: it answers with a text, or it fails
LLMOutcomes ==
    { [ok |-> TRUE, text |-> "I cannot tell from the data."],
      [ok |-> FALSE, text |-> "Connection error."] }

\* the slice taken from the front of the log: conversation_history[:5]
LastFiveFromFront(log) == SubSeq(log, 1, IF Len(log) > 5 THEN 5 ELSE Len(log))

\* self.conversation_history[-5:]
LastFive(log) == SubSeq(log, IF Len(log) > 5 THEN Len(log) - 4 ELSE 1, Len(log))

\* _ask_llm with the failure reported by its bare message
AskLLMBare(llm) == llm.text

\* LLMHandler._ask_llm: the text it returns, given what the remote call does
AskLLM(llm) ==
    IF llm.ok THEN llm.text
    ELSE "Answer: Error processing your question: " \o llm.text

Entry(role, text) == [role |-> role, content |-> text]

\* LLMHandler._add_to_history
AddToHistory(log, text, role) == Append(log, Entry(role, text))

\* the test with the `not` dropped
IsDirectInverted(direct_answer) ==
    /\ direct_answer.kind = "text"
    /\ direct_answer.text # ""
    /\ StartsWith(direct_answer.text, "Could not")

\* `if direct_answer and not direct_answer.startswith("Could not")`
IsDirect(direct_answer) ==
    /\ direct_answer.kind = "text"
    /\ direct_answer.text # ""
    /\ ~StartsWith(direct_answer.text, "Could not")

\* the rest of get_answer once the question is logged (asked_log), query has returned
\* or raised (analysis_result) and the formatter has run (direct_answer)
Answered(asked_log, q, analysis_result, direct_answer, llm) ==
    IF Raised(analysis_result)
    THEN [kind |-> "raise", exc |-> analysis_result.exc, answer |-> "", log |-> asked_log,
          query |-> analysis_result, direct |-> direct_answer, llm_calls |-> 0,
          context_history |-> <<>>]
    ELSE IF Raised(direct_answer)
    THEN [kind |-> "raise", exc |-> direct_answer.exc, answer |-> "", log |-> asked_log,
          query |-> analysis_result, direct |-> direct_answer, llm_calls |-> 0,
          context_history |-> <<>>]
    ELSE IF IsDirect(direct_answer)
    THEN [kind |-> "return", exc |-> "", answer |-> direct_answer.text,
          log |-> AddToHistory(asked_log, direct_answer.text, "assistant"),
          query |-> analysis_result, direct |-> direct_answer, llm_calls |-> 0,
          context_history |-> <<>>]
    ELSE [kind |-> "return", exc |-> "", answer |-> AskLLM(llm),
          log |-> AddToHistory(asked_log, AskLLM(llm), "assistant"),
          query |-> analysis_result, direct |-> direct_answer, llm_calls |-> 1,
          context_history |-> LastFive(asked_log)]

\* get_answer from the point where query has returned or raised
Formatted(asked_log, q, analysis_result, llm) ==
    Answered(asked_log, q, analysis_result,
             IF Raised(analysis_result) THEN [kind |-> "unreached"]
             ELSE FormatAnalysisResult(analysis_result.result),
             llm)

\* get_answer querying the first question of the log instead of the one it was given
GetAnswerStale(a, log, q, llm) ==
    Formatted(AddToHistory(log, q, "user"), q,
              Query(a, AddToHistory(log, q, "user")[1].content), llm)

\* LLMHandler.get_answer on conversation log `log`; llm is what the remote call would
\* do. The outcome holds the log as the call leaves it and what the call did.
GetAnswer(a, log, q, llm) ==
    Formatted(AddToHistory(log, q, "user"), q, Query(a, q), llm)

-----------------------------------------------------------------------------
(* The page (main): the session state and the handlers of one script run.  *)

NoHandler == [kind |-> "none"]

\* the files uploaded to the page
SessionFiles == { f \in Files : f.name \in {"company.xlsx", "staff.csv", "broken.xlsx"} }

\* the outcome of query as one tag: the result type, or the exception raised
Tag(outcome) == IF Raised(outcome) THEN "raise " \o outcome.exc ELSE outcome.result.type

RECURSIVE LastUserFrom(_, _)
\* next(msg["content"] for msg in reversed(conversation) if msg["role"] == "user", None)
LastUserFrom(log, i) ==
    IF i < 1 THEN [found |-> FALSE, content |-> ""]
    ELSE IF log[i].role = "user" THEN [found |-> TRUE, content |-> log[i].content]
    ELSE LastUserFrom(log, i - 1)

\* the branch of query each typed question enters, computed once
Entered == [q \in SessionQuestions |-> FirstTrigger(q)]

Idle == [op |-> "idle"]
Unseen == [asked |-> FALSE]

Init ==
    /\ analyzer = NoHandler
    /\ history = <<>>
    /\ conversation = <<>>
    /\ processing = FALSE
    /\ file_path = ""
    /\ last = Idle
    /\ asked = 0
    /\ seen = Unseen
    /\ question = ""
    /\ nphrases = 0

\* main, "Process uploaded file": a new upload is saved and loaded; a load that raises
\* leaves the session's handler as it was
Upload(f, saved) ==
    /\ file_path # f.name
    /\ IF ~saved
       THEN UNCHANGED <<analyzer, history, conversation, file_path, asked, seen>>
       ELSE LET handler == Constructed[f.name] IN
            /\ file_path' = f.name
            /\ IF Raised(handler)
               THEN UNCHANGED <<analyzer, history, conversation, asked, seen>>
               ELSE /\ analyzer' = handler
                    /\ history' = <<>>
                    /\ conversation' = <<>>
                    /\ asked' = 0
                    /\ seen' = Unseen
    /\ last' = Idle
    /\ UNCHANGED <<processing, question, nphrases>>

\* main, "Question input at the bottom"
Submit(q) ==
    /\ analyzer # NoHandler
    /\ ~processing
    /\ Len(conversation) < 2 * MaxAsks
    /\ processing' = TRUE
    /\ conversation' = Append(conversation, Entry("user", q))
    /\ last' = Idle
    /\ UNCHANGED <<analyzer, history, file_path, asked, seen, question, nphrases>>

\* main, "Process question": get_answer on the last user message; an exception it
\* raises becomes the assistant's message
Process(llm) ==
    /\ processing
    /\ analyzer # NoHandler
    /\ \E last_question \in {LastUserFrom(conversation, Len(conversation))} :
         IF ~last_question.found
         THEN UNCHANGED <<analyzer, history, conversation, processing, last, asked, seen>>
         ELSE \E out \in {GetAnswer(analyzer, history, last_question.content, llm)} :
                /\ analyzer' = QueryLeaves(analyzer, last_question.content)
                /\ history' = out.log
                /\ conversation' =
                       Append(conversation,
                              Entry("assistant",
                                    IF out.kind = "return" THEN out.answer
                                    ELSE "Error: " \o out.exc))
                /\ processing' = FALSE
                /\ asked' = asked + 1
                /\ seen' = IF seen.asked THEN seen
                           ELSE [asked |-> TRUE, question |-> last_question.content,
                                 tag |-> Tag(out.query)]
                /\ last' = [op |-> "get_answer", question |-> last_question.content,
                            trigger |-> Entered[last_question.content],
                            llm |-> llm, before |-> history, out |-> out]
    /\ UNCHANGED <<file_path, question, nphrases>>

\* LLMHandler.clear_history
ClearHistory(log) == <<>>

\* main, the "Clear Conversation" button
Clear ==
    /\ history' = IF analyzer # NoHandler THEN ClearHistory(history) ELSE history
    /\ conversation' = <<>>
    /\ asked' = 0
    /\ last' = Idle
    /\ UNCHANGED <<analyzer, processing, file_path, seen, question, nphrases>>

Next ==
    \/ \E f \in SessionFiles, saved \in BOOLEAN : Upload(f, saved)
    \/ \E q \in SessionQuestions : Submit(q)
    \/ \E llm \in LLMOutcomes : Process(llm)
    \/ Clear

Spec == Init /\ [][Next]_vars

\* the script reruns as soon as a question is submitted (st.rerun), so a pending
\* question that can be processed is processed
FairSpec == Spec /\ WF_vars(\E llm \in LLMOutcomes : Process(llm))

-----------------------------------------------------------------------------
(* The router on its own: get_answer on a fresh handler of each file that  *)
(* loads, for the questions built from the phrases below.                  *)

\* the pieces questions are built from: trigger words, entity names, digits
Phrases ==
    { "How many employees", "in the Sales department", "What is the salary of", "Carol",
      "How many sales in February", "Who was hired before", "2024", "highest total sales",
      "by month", "with an average FeedbackScore of 5", "total sales amount in January",
      "average salary by department", "which department has the lowest average salary",
      "How many employees hired most recently" }

\* the files LLMHandler(file_path) does not raise on
Loadable == { n \in DOMAIN Constructed : ~Raised(Constructed[n]) }

RouterInit ==
    /\ \E n \in Loadable : analyzer = Constructed[n]
    /\ history = <<>>
    /\ conversation = <<>>
    /\ processing = FALSE
    /\ file_path = analyzer.file
    /\ last = Idle
    /\ asked = 0
    /\ seen = Unseen
    /\ question = ""
    /\ nphrases = 0

\* the user types one more phrase
AddPhrase(p) ==
    /\ nphrases < MaxPhrases
    /\ question' = IF question = "" THEN p ELSE question \o " " \o p
    /\ nphrases' = nphrases + 1
    /\ last' = Idle
    /\ UNCHANGED <<analyzer, history, conversation, processing, file_path, asked, seen>>

\* get_answer(question) on the fresh handler, observed and not kept
Ask(llm) ==
    /\ last = Idle
    /\ last' = [op |-> "get_answer", question |-> question,
                trigger |-> FirstTrigger(question), llm |-> llm, before |-> history,
                out |-> GetAnswer(analyzer, history, question, llm)]
    /\ analyzer' = QueryLeaves(analyzer, question)
    /\ UNCHANGED <<history, conversation, processing, file_path, asked, seen,
                   question, nphrases>>

RouterNext ==
    \/ \E p \in Phrases : AddPhrase(p)
    \/ \E llm \in LLMOutcomes : Ask(llm)

RouterSpec == RouterInit /\ [][RouterNext]_vars

-----------------------------------------------------------------------------
(* One handler on its own: get_answer and clear_history called on the      *)
(* LLMHandler of a workbook, in any order.                                 *)

\* a question the formatter answers, one left to the fallback, one query raises on
HandlerQuestions ==
    { "What is the salary of Alice?",
      "What is the weather today?",
      "Who was hired before the merger?" }

HandlerInit ==
    /\ analyzer = Constructed["company.xlsx"]
    /\ history = <<>>
    /\ conversation = <<>>
    /\ processing = FALSE
    /\ file_path = "company.xlsx"
    /\ last = Idle
    /\ asked = 0
    /\ seen = Unseen
    /\ question = ""
    /\ nphrases = 0

\* handler.get_answer(q); an exception leaves the log as it stood when it was raised
GetAnswerCall(q, llm) ==
    /\ asked < MaxCalls
    /\ \E out \in {GetAnswer(analyzer, history, q, llm)} :
          /\ analyzer' = QueryLeaves(analyzer, q)
          /\ history' = out.log
          /\ asked' = asked + 1
          /\ last' = [op |-> "get_answer", question |-> q, trigger |-> FirstTrigger(q),
                      llm |-> llm, before |-> history, out |-> out]
    /\ UNCHANGED <<conversation, processing, file_path, seen, question, nphrases>>

\* handler.clear_history()
ClearHistoryCall ==
    /\ history' = ClearHistory(history)
    /\ asked' = 0
    /\ last' = Idle
    /\ UNCHANGED <<analyzer, conversation, processing, file_path, seen, question, nphrases>>

HandlerNext ==
    \/ \E q \in HandlerQuestions, llm \in LLMOutcomes : GetAnswerCall(q, llm)
    \/ ClearHistoryCall

HandlerSpec == HandlerInit /\ [][HandlerNext]_vars

-----------------------------------------------------------------------------
(* Properties.                                                             *)

\* the latest step was a get_answer call
Called == last.op = "get_answer"

\* the number of times col occurs in a list of column names
Occurrences(list, col) == Cardinality({ i \in 1..Len(list) : list[i] = col })

\* C1: query never raises, whatever the question and the loaded tables, and when no
\* trigger matches it returns type 'unhandled' with the question text as given.
C1_QueryTotal ==
    Called =>
        /\ ~Raised(last.out.query)
        /\ last.trigger = 0 =>
               last.out.query.result = [type |-> "unhandled", question |-> last.question]

C3_LogShape ==
    /\ Len(history) = 2 * asked
    /\ \A i \in 1..Len(history) :
           history[i].role = (IF i % 2 = 1 THEN "user" ELSE "assistant")
    /\ Called =>
           /\ Len(history) >= 2
           /\ history[Len(history) - 1] = Entry("user", last.question)
           /\ history[Len(history)] = Entry("assistant", last.out.answer)

\* C4: when the fallback is taken and the remote call fails, get_answer returns
\* "Answer: Error processing your question: <message>" and that text is the assistant
\* entry appended to the log.
C4_RemoteFailureCaught ==
    (Called /\ last.out.direct = None /\ ~last.llm.ok) =>
        /\ last.out.kind = "return"
        /\ last.out.answer = "Answer: Error processing your question: " \o last.llm.text
        /\ history = Append(Append(last.before, Entry("user", last.question)),
                            Entry("assistant", last.out.answer))

\* the fallback was taken and the remote call failed
C4_Witness ==
    /\ Called
    /\ last.out.direct = None
    /\ ~last.llm.ok
    /\ last.out.llm_calls = 1
    /\ last.out.kind = "return"

\* C5: the fallback asker is called once when the formatter returns nothing (as it does
\* for every 'unhandled' result) and not at all when it returns a text; get_answer
\* returns the model's response verbatim in the first case and the formatter's text
\* verbatim in the second.
C5_Dispatch ==
    Called =>
        /\ last.out.direct = None =>
               /\ last.out.llm_calls = 1
               /\ last.llm.ok => last.out.answer = last.llm.text
        /\ last.out.direct.kind = "text" =>
               /\ last.out.llm_calls = 0
               /\ last.out.answer = last.out.direct.text
        /\ (~Raised(last.out.query) /\ last.out.query.result.type = "unhandled") =>
               last.out.direct = None

\* both paths: an answer of the formatter after an answer of the model
C5_Witness ==
    /\ Called
    /\ last.out.direct.kind = "text"
    /\ last.out.answer = last.out.direct.text
    /\ Len(last.before) = 2
    /\ last.before[2].content = "I cannot tell from the data."

C7_ClassificationPartition ==
    analyzer.kind = "ok" =>
        \A n \in DOMAIN analyzer.sheets :
            LET sheet == analyzer.sheets[n] IN
            \A i \in 1..Len(sheet.data.columns) :
                Occurrences(sheet.column_types.numeric, sheet.data.columns[i])
                + Occurrences(sheet.column_types.categorical, sheet.data.columns[i])
                + Occurrences(sheet.column_types.date, sheet.data.columns[i]) = 1

\* a loaded table with an id column that is numeric, a text column that parsed as dates
\* and a text column that did not
C7_Witness ==
    /\ analyzer.kind = "ok"
    /\ \E n \in DOMAIN analyzer.sheets :
          LET types == analyzer.sheets[n].column_types IN
          /\ \E i \in 1..Len(types.id) : Occurrences(types.numeric, types.id[i]) = 1
          /\ Occurrences(types.date, "Idea") = 1
          /\ Occurrences(types.categorical, "Comments") = 1

\* C8: the employee_sales view exists exactly when the tables Employees and Sales are
\* both loaded, employee_feedback exactly when Employees and Feedback are; the 'highest
\* total sales' branch returns top_sales_employee only with the employee_sales view,
\* and 'unhandled' without it.
C8_RelationshipViews ==
    analyzer.kind = "ok" =>
        /\ "employee_sales" \in DOMAIN analyzer.views
               <=> {"Employees", "Sales"} \subseteq DOMAIN analyzer.sheets
        /\ "employee_feedback" \in DOMAIN analyzer.views
               <=> {"Employees", "Feedback"} \subseteq DOMAIN analyzer.sheets
        /\ (Called /\ Tag(last.out.query) = "top_sales_employee") =>
               "employee_sales" \in DOMAIN analyzer.views
        /\ (Called /\ last.trigger = 11 /\ "employee_sales" \notin DOMAIN analyzer.views) =>
               last.out.query = Unhandled(last.question)

\* the 'highest total sales' branch taken on tables without Sales but with both
\* Employees and Feedback
C8_Witness ==
    /\ Called
    /\ last.trigger = 11
    /\ "employee_sales" \notin DOMAIN analyzer.views
    /\ "employee_feedback" \in DOMAIN analyzer.views
    /\ last.out.query = Unhandled(last.question)

\* the file of the given name
FileNamed(n) == CHOOSE f \in Files : f.name = n

\* the names of the sheets of a file
SheetNames(f) == { f.sheets[i].name : i \in 1..Len(f.sheets) }

\* C9: a handler exists only for a file all of whose sheets were read: its tables are
\* the one table 'data' when the saved file's name ends in .csv and one table per sheet,
\* by sheet name, otherwise; a file with a sheet that cannot be read raises out of the
\* constructor and leaves no handler of it in the session.
C9_LoadAllOrNothing ==
    /\ analyzer # NoHandler =>
           LET f == FileNamed(analyzer.file) IN
           /\ \A i \in 1..Len(f.sheets) : f.sheets[i].ok
           /\ DOMAIN analyzer.sheets =
                  IF EndsWith(TempPath(f.name), ".csv") THEN {"data"} ELSE SheetNames(f)
    /\ \A f \in Files :
           (\E i \in 1..Len(f.sheets) : ~f.sheets[i].ok) => Raised(Constructed[f.name])

\* the upload of a file with an unreadable sheet, after a file that loaded
C9_Witness ==
    /\ file_path = "broken.xlsx"
    /\ analyzer # NoHandler
    /\ analyzer.file = "company.xlsx"
    /\ DOMAIN analyzer.sheets = {"Employees", "Sales", "Feedback"}

\* C10: a question with 'how many sales' and 'february' gets type 'sales_count' counting
\* the Sales rows dated in February 2025; on the Sales rows 101 (2025-02-01),
\* 102 (2025-02-15) and 103 (2025-01-20) that is count 2 and sale_ids [101, 102].
C10_FebruarySales ==
    (Called /\ last.trigger = 4 /\ analyzer.file = "company.xlsx") =>
        last.out.query = Return([type |-> "sales_count", month |-> "February 2025",
                                 count |-> 2, sale_ids |-> <<101, 102>>])

LogWhenAsked == Append(last.before, Entry("user", last.question))

\* C12: on every call of the fallback asker the history in the context is the last
\* min(5, n) entries of the log, in order, n being the length of the log at that moment,
\* and its last entry is the user entry of the question being answered.
C12_LastFiveToFallback ==
    (Called /\ last.out.llm_calls = 1) =>
        LET n == Len(LogWhenAsked)
            k == Len(last.out.context_history)
        IN /\ k = (IF n < 5 THEN n ELSE 5)
           /\ \A i \in 1..k : last.out.context_history[i] = LogWhenAsked[n - k + i]
           /\ last.out.context_history[k] = Entry("user", last.question)

\* a fallback call on a log of more than five entries
C12_Witness ==
    /\ Called
    /\ last.out.llm_calls = 1
    /\ Len(LogWhenAsked) > 5
    /\ Len(last.out.context_history) = 5

\* C13: only the first trigger whose condition holds is acted on, and query never
\* returns type 'top_sales_month': a question that satisfies its trigger ('highest total
\* sales' and 'month') satisfies the earlier 'highest total sales' trigger, which wins.
C13_TopSalesMonthShadowed ==
    Called =>
        /\ Tag(last.out.query) # "top_sales_month"
        /\ last.trigger \notin 1..11 => ~TriggerHolds(15, Lower(last.question))
        /\ last.trigger # 0 =>
               /\ TriggerHolds(last.trigger, Lower(last.question))
               /\ Tag(last.out.query) \in
                      {TriggerTypes[last.trigger], "unhandled",
                       "raise AttributeError", "raise IndexError", "raise KeyError",
                       "raise ValueError"}

\* a question with 'highest total sales' and 'month', answered by the earlier branch
C13_Witness ==
    /\ Called
    /\ TriggerHolds(15, Lower(last.question))
    /\ last.trigger = 11
    /\ Tag(last.out.query) = "top_sales_employee"

\* C14: query never returns type 'feedback_count' or 'avg_feedback': a question that
\* satisfies the trigger of either satisfies the earlier 'feedbackscore' trigger (or the
\* still earlier department-count trigger), which wins.
C14_FeedbackTypesShadowed ==
    Called =>
        /\ Tag(last.out.query) \notin {"feedback_count", "avg_feedback"}
        /\ last.trigger \notin {1, 6} =>
               /\ ~TriggerHolds(13, Lower(last.question))
               /\ ~TriggerHolds(16, Lower(last.question))

\* C14, amended: query never returns type 'feedback_count' or 'avg_feedback': a question
\* that satisfies the trigger of either satisfies the earlier 'feedbackscore' trigger, so
\* the branch entered is that one or any of the five before it ('salary of', 'hired most
\* recently', ... as well as the department count).
C14_FeedbackTypesShadowedAmended ==
    Called =>
        /\ Tag(last.out.query) \notin {"feedback_count", "avg_feedback"}
        /\ (\/ TriggerHolds(13, Lower(last.question))
            \/ TriggerHolds(16, Lower(last.question))) =>
               /\ TriggerHolds(6, Lower(last.question))
               /\ last.trigger \in 1..6

\* a question with 'how many employees' and 'FeedbackScore', answered by the earlier
\* 'feedbackscore' branch
C14_Witness ==
    /\ Called
    /\ TriggerHolds(13, Lower(last.question))
    /\ Contains(RemoveSpaces(Lower(last.question)), "averagefeedbackscore")
    /\ last.trigger = 6
    /\ ~Raised(last.out.query)

\* the extraction returned and found nothing
NotFound(x) == ~Raised(x) /\ ~Truthy(x)

\* the employee the extraction found has no row in Feedback
NoFeedbackRow(a, name) ==
    /\ ~Raised(name) /\ Truthy(name)
    /\ ~NoColumn(a, "Employees", "EmployeeID") /\ ~NoColumn(a, "Feedback", "EmployeeID")
    /\ \A i \in 1..Len(Rows(a, "Feedback")) :
           Rows(a, "Feedback")[i].EmployeeID # EmployeesNamed(a, name.value)[1].EmployeeID

\* the inner guard of branch i is evaluated and fails
GuardFails(i, a, q) ==
    CASE i \in {1, 12} -> NotFound(ExtractDepartment(a, q))
      [] i \in {2, 7} -> NotFound(ExtractName(a, q))
      [] i = 6 -> NotFound(ExtractName(a, q)) \/ NoFeedbackRow(a, ExtractName(a, q))
      [] i = 8 -> ~Contains(RemoveSpaces(Lower(q)), "saleid")
      [] i = 11 -> "employee_sales" \notin DOMAIN a.views
      [] OTHER -> FALSE

\* C15: once a trigger's condition holds no later trigger is tried: query returns the
\* type of the first matching branch or, when that branch's inner guard fails (no
\* department or name found, no 'saleid', no feedback row, no employee_sales view),
\* 'unhandled', and never the type of a later branch.
C15_NoLaterTrigger ==
    (Called /\ last.trigger # 0) =>
        /\ \A j \in (last.trigger + 1)..Len(TriggerTypes) :
               Tag(last.out.query) # TriggerTypes[j]
        /\ GuardFails(last.trigger, analyzer, last.question) =>
               last.out.query = Unhandled(last.question)

\* 'which department' with 'lowest average salary' and no employee name
C15_Witness ==
    /\ Called
    /\ last.trigger = 7
    /\ TriggerHolds(17, Lower(last.question))
    /\ NotFound(ExtractName(analyzer, last.question))
    /\ last.out.query = Unhandled(last.question)

\* the state right after a question was processed: the flag is down, the chat input is
\* offered, and the shell's conversation ends with the question and one assistant entry
QuestionAnswered ==
    /\ ~processing
    /\ analyzer # NoHandler
    /\ Called
    /\ Len(conversation) >= 2
    /\ conversation[Len(conversation) - 1] = Entry("user", last.question)
    /\ conversation[Len(conversation)].role = "assistant"

\* C16: every question submitted through the chat input is eventually followed by a
\* state in which the processing flag is false, the chat input is offered again and one
\* assistant entry was appended for the question, also when Clear Conversation is
\* pressed while the flag is set.
C16_QuestionEventuallyAnswered == processing ~> QuestionAnswered

====
